---------------------------- MODULE Spec2Model ----------------------------
(***************************************************************************)
(* ContentCurator: one curation run (main.py) as a state machine.          *)
(*                                                                         *)
(*   main()                        start the client, fetch, publish        *)
(*   fetch_top_posts_with_client() per-channel window filter, score, sort, *)
(*                                 top-20% selection, merge, snapshot      *)
(*   send_post_with_media(), send_text_post(), utils.py helpers            *)
(*                                                                         *)
(* Python values are modelled as follows.  A dict is a TLA+ record (a      *)
(* function on its keys), a str is a sequence of one-character strings, a  *)
(* datetime is an integer number of hours, None for a counter is NoCount,  *)
(* and the insertion-ordered dict all_posts_by_channel is a sequence of    *)
(* <<key, value>> entries.                                                 *)
(***************************************************************************)
EXTENDS Integers, Sequences, FiniteSets, TLC

VARIABLES
    channels,              \* config.CHANNELS, read once at import
    pc,                    \* position of main(): start, fetch_loop, combine,
                           \*   save, send_loop, done, raised
    ci,                    \* index in channels of the next loop iteration
    exc,                   \* exception caught by the latest fetch iteration
    messages,              \* local: messages of the latest successful fetch
    channel_posts,         \* local: filtered and sorted posts of that fetch
    all_posts_by_channel,  \* ordered dict channel -> analysis
    posts,                 \* all_selected_posts, returned to main()
    content_file,          \* content/posts.json on disk
    save_error,            \* exception caught around the snapshot write
    pi,                    \* index in posts of the next publishing iteration
    successful_sends,
    failed_sends,
    reported,              \* main.py:150 logged the final statistics
    requests,              \* get_messages(channel, ids=id) calls, in order
    outbox,                \* send_file / send_message calls, in order
    handled,               \* posts the publishing loop has gone through
    connected,             \* client.is_connected()
    sched_pc,              \* position of scheduler.main(): off when main.py
                           \*   runs on its own; setup, initial, loop, job,
                           \*   stopped, crashed
    now,                   \* the clock of the scheduler, in hours
    next_run,              \* when the scheduled job is next due
    run_log,               \* what scheduled_curation logged at the end of
                           \*   each run, in order
    args,                  \* the arguments of a call of a utils.py function
    result                 \* what the call returned

vars == <<channels, pc, ci, exc, messages, channel_posts, all_posts_by_channel,
          posts, content_file, save_error, pi, successful_sends, failed_sends,
          reported, requests, outbox, handled, connected,
          sched_pc, now, next_run, run_log, args, result>>

\* the state of scheduler.py
sched_vars == <<sched_pc, now, next_run, run_log>>

-----------------------------------------------------------------------------
(* Bounds of the model. *)

\* longest message list a fetch returns in a whole run
MaxLen == 1
\* most entries of config.CHANNELS
MaxChannels == 2
\* longest message list of the per-source specification, all kinds of message
MaxFetched == 6
\* longest message list of the per-source specification (uniform lists)
MaxLimit == 60
\* most posts handed to the publishing loop of SpecLoop
MaxPosts == 2
\* the hours the scheduler's clock is followed for
MaxTime == 9
\* largest counter handed to calculate_interaction_score on its own
MaxCount == 4
\* longest text handed to format_post_caption on its own
MaxText == 3

-----------------------------------------------------------------------------
(* Values. *)

NoCount == -1            \* msg.views / msg.forwards is None or absent
NoExc == "none"          \* no exception
NoFile == [written |-> FALSE]

\* datetime.now(timezone.utc), in hours
current_time == 100
HoursBack == 24
cutoff_time == current_time - HoursBack

FORWARD_GROUP_ID == "group"

Min(a, b) == IF a <= b THEN a ELSE b
Max(a, b) == IF a >= b THEN a ELSE b

RECURSIVE Pow2(_)
Pow2(k) == IF k = 0 THEN 1 ELSE 2 * Pow2(k - 1)

RECURSIVE Concat(_)
\* the concatenation of a sequence of sequences
Concat(ss) == IF ss = <<>> THEN <<>> ELSE Head(ss) \o Concat(Tail(ss))

RECURSIVE SumSeq(_)
SumSeq(s) == IF s = <<>> THEN 0 ELSE Head(s) + SumSeq(Tail(s))

-----------------------------------------------------------------------------
(* utils.py *)

\* html.escape(c, quote=True) of one character
EscapeChar(c) ==
    CASE c = "&"  -> <<"&", "a", "m", "p", ";">>
      [] c = "<"  -> <<"&", "l", "t", ";">>
      [] c = ">"  -> <<"&", "g", "t", ";">>
      [] c = "\"" -> <<"&", "q", "u", "o", "t", ";">>
      [] c = "'"  -> <<"&", "#", "x", "2", "7", ";">>
      [] OTHER    -> <<c>>

RECURSIVE EscapeMarkup(_)
\* html.escape(s, quote=False): the quote characters are left alone
EscapeMarkup(s) ==
    IF s = <<>> THEN <<>>
    ELSE (IF Head(s) \in {"\"", "'"} THEN <<Head(s)>> ELSE EscapeChar(Head(s)))
           \o EscapeMarkup(Tail(s))

RECURSIVE escape(_)
escape(s) == IF s = <<>> THEN <<>> ELSE EscapeChar(Head(s)) \o escape(Tail(s))

IsSpace(c) == c \in {" ", "\n", "\t"}

\* str.strip() is empty
StripEmpty(s) == \A i \in 1..Len(s) : IsSpace(s[i])

\* "[Media post without text]"
Placeholder ==
    <<"[", "M", "e", "d", "i", "a", " ", "p", "o", "s", "t", " ", "w", "i",
      "t", "h", "o", "u", "t", " ", "t", "e", "x", "t", "]">>
\* "\n\n<blockquote>powered by Sinus-Alpha</blockquote>"
Footer ==
    <<"\n", "\n", "<", "b", "l", "o", "c", "k", "q", "u", "o", "t", "e",
      ">", "p", "o", "w", "e", "r", "e", "d", " ", "b", "y", " ", "S", "i",
      "n", "u", "s", "-", "A", "l", "p", "h", "a", "<", "/", "b", "l", "o",
      "c", "k", "q", "u", "o", "t", "e", ">">>

\* post.get('text', '')
GetText(post) == IF "text" \in DOMAIN post THEN post.text ELSE <<>>

format_post_caption(post) ==
    LET original_text == escape(GetText(post))
    IN  (IF StripEmpty(original_text) THEN Placeholder ELSE original_text)
          \o Footer

\* a score that weighs every counter alike
UnweightedScore(views, forwards, reactions) == views + forwards + reactions

\* utils.py:26: reactions=0
DefaultReactions == 0

calculate_interaction_score(views, forwards, reactions) ==
    views + (forwards * 2) + (reactions * 3)

\* a validation that accepts every dict
AcceptAll(post) == TRUE

required_fields == {"channel", "id", "text", "views", "forwards", "has_media"}

validate_post_data(post) == \A field \in required_fields : field \in DOMAIN post

-----------------------------------------------------------------------------
(* len(channel_posts) * 0.2 in IEEE-754 binary64, and math.ceil of it.     *)
(* 0.2 is the double 0x1.999999999999ap-3 = Mantissa02 * 2^-55.  The exact *)
(* product n * Mantissa02 is held in 16-bit limbs (least significant       *)
(* first), rounded to 53 significant bits, ties to even, as the multiply   *)
(* does, and the ceiling is read off the rounded bits.                     *)

LimbBase == 65536
LimbBits == 16
Mantissa02 == <<39322, 39321, 39321, 25>>    \* 0x0019 9999 9999 999A
MantissaBits == 53
Scale02 == 55
ProductBits == 80

RECURSIVE MulLimbs(_, _, _)
\* limbs * n + carry, one limb longer than limbs
MulLimbs(limbs, n, carry) ==
    IF limbs = <<>> THEN <<carry>>
    ELSE LET t == Head(limbs) * n + carry
         IN  <<t % LimbBase>> \o MulLimbs(Tail(limbs), n, t \div LimbBase)

Bit(limbs, i) == (limbs[(i \div LimbBits) + 1] \div Pow2(i % LimbBits)) % 2

BitLen(limbs) ==
    LET set == {i \in 0..(ProductBits - 1) : Bit(limbs, i) = 1}
    IN  IF set = {} THEN 0 ELSE 1 + CHOOSE i \in set : \A j \in set : j <= i

\* how the exact product is rounded: the low bits dropped, and whether the
\* kept bits are incremented (round to nearest, ties to even)
Rounding(limbs) ==
    LET len == BitLen(limbs)
        drop == IF len > MantissaBits THEN len - MantissaBits ELSE 0
        guard == drop > 0 /\ Bit(limbs, drop - 1) = 1
        sticky == \E j \in 0..(drop - 2) : Bit(limbs, j) = 1
    IN  [drop |-> drop, up |-> guard /\ (sticky \/ Bit(limbs, drop) = 1)]

\* bit i of the product after rounding r
RoundedBit(limbs, r, i) ==
    IF i < r.drop THEN 0
    ELSE IF r.up /\ \A j \in r.drop..(i - 1) : Bit(limbs, j) = 1
         THEN 1 - Bit(limbs, i)
         ELSE Bit(limbs, i)

RECURSIVE IntegerPart(_, _, _)
\* the rounded product's bits from Scale02 + k up, as an integer
IntegerPart(limbs, r, k) ==
    IF Scale02 + k >= ProductBits THEN 0
    ELSE RoundedBit(limbs, r, Scale02 + k) + 2 * IntegerPart(limbs, r, k + 1)

\* math.ceil(n * 0.2)
CeilTimes02(n) ==
    LET limbs == MulLimbs(Mantissa02, n, 0)
        r == Rounding(limbs)
        fraction == \E j \in 0..(Scale02 - 1) : RoundedBit(limbs, r, j) = 1
    IN  IntegerPart(limbs, r, 0) + (IF fraction THEN 1 ELSE 0)

\* config.py:42, the default of LIMIT_PER_CHANNEL
LIMIT_PER_CHANNEL == 50

\* math.ceil(n * 0.2) for every length a fetch can return
CeilTable == [n \in 0..LIMIT_PER_CHANNEL |-> CeilTimes02(n)]

-----------------------------------------------------------------------------
(* fetch_top_posts_with_client: one source *)

\* getattr(msg, 'views', 0) or 0
OrZero(counter) == IF counter = NoCount THEN 0 ELSE counter

\* main.py:209-225
post_data(channel, msg) ==
    LET views == OrZero(msg.views)
        forwards == OrZero(msg.forwards)
    IN  [channel |-> channel,
         text |-> msg.message,
         views |-> views,
         forwards |-> forwards,
         interaction_score |->
             calculate_interaction_score(views, forwards, DefaultReactions),
         date |-> msg.date,
         id |-> msg.id,
         has_media |-> msg.media]

\* main.py:207: the message is inside the window
InWindow(msg) == msg.date >= cutoff_time

RECURSIVE WindowFilterAll(_, _)
\* a filter that does not stop at the first message outside the window
WindowFilterAll(channel, msgs) ==
    IF msgs = <<>> THEN <<>>
    ELSE (IF InWindow(Head(msgs)) THEN <<post_data(channel, Head(msgs))>> ELSE <<>>)
           \o WindowFilterAll(channel, Tail(msgs))

RECURSIVE WindowFilter(_, _)
\* main.py:205-230: append until the first message older than the cutoff
WindowFilter(channel, msgs) ==
    IF msgs = <<>> THEN <<>>
    ELSE IF InWindow(Head(msgs))
         THEN <<post_data(channel, Head(msgs))>> \o WindowFilter(channel, Tail(msgs))
         ELSE <<>>

\* the key of both sorts, reverse=True: p goes before q only when its key is
\* strictly greater
Before(p, q) == p.interaction_score > q.interaction_score

RECURSIVE InsertSorted(_, _)
\* p into the sorted s, after every element that p does not go before
InsertSorted(s, p) ==
    IF s = <<>> THEN <<p>>
    ELSE IF Before(p, Head(s)) THEN <<p>> \o s
         ELSE <<Head(s)>> \o InsertSorted(Tail(s), p)

RECURSIVE SortFrom(_, _)
SortFrom(sorted, rest) ==
    IF rest = <<>> THEN sorted
    ELSE SortFrom(InsertSorted(sorted, Head(rest)), Tail(rest))

RECURSIVE Reverse(_)
Reverse(s) == IF s = <<>> THEN <<>> ELSE Append(Reverse(Tail(s)), Head(s))

\* the sort run on the list read backwards: equal scores end up reversed
SortThenReverse(s) == SortFrom(<<>>, Reverse(s))

\* list.sort(key=lambda x: x['interaction_score'], reverse=True): stable
SortByScore(s) == SortFrom(<<>>, s)

\* the count with int() in place of math.ceil
TruncatedCount(n) == IF n > 0 THEN Max(1, n \div 5) ELSE 0

\* main.py:236-238: max(1, math.ceil(len(channel_posts) * 0.2)), 0 when empty
channel_top_count(n) == IF n > 0 THEN Max(1, CeilTable[n]) ELSE 0

\* main.py:236-254: the analysis of a source that was fetched
Analysis(sorted) ==
    [total_posts |-> Len(sorted),
     selected_posts |-> channel_top_count(Len(sorted)),
     posts |-> SubSeq(sorted, 1, Min(channel_top_count(Len(sorted)), Len(sorted)))]

\* main.py:258-263: the analysis of a source whose fetch raised
ErrorAnalysis(e) ==
    [total_posts |-> 0, selected_posts |-> 0, posts |-> <<>>, error |-> e]

\* all_posts_by_channel[channel] = data on an insertion-ordered dict
DictSet(dict, key, data) ==
    IF \E i \in 1..Len(dict) : dict[i][1] = key
    THEN [i \in 1..Len(dict) |-> IF dict[i][1] = key THEN <<key, data>> ELSE dict[i]]
    ELSE Append(dict, <<key, data>>)

DictKeys(dict) == {dict[i][1] : i \in 1..Len(dict)}
DictGet(dict, key) == dict[CHOOSE i \in 1..Len(dict) : dict[i][1] = key][2]

\* the loop left at the first exception
StopAtError(i, n, raised) == IF raised THEN n + 1 ELSE i + 1

\* a source whose fetch raised is fetched again
RetryOnError(i, n, raised) == IF raised THEN i ELSE i + 1

\* main.py:192, 264: the loop goes on to the next channel, also after an
\* exception (i of n channels was just processed)
NextChannel(i, n, raised) == i + 1

\* the selections extended in dict order and left unsorted
MergeUnsorted(dict) == Concat([i \in 1..Len(dict) |-> dict[i][2].posts])

\* main.py:271-277: extend in dict order, then sort by score
MergeSelected(dict) ==
    SortByScore(Concat([i \in 1..Len(dict) |-> dict[i][2].posts]))

\* main.py:268-274
total_posts_all_channels(dict) ==
    SumSeq([i \in 1..Len(dict) |-> dict[i][2].total_posts])
total_selected_posts(dict) ==
    SumSeq([i \in 1..Len(dict) |-> dict[i][2].selected_posts])

\* main.py:296-304
analysis_data(chans, dict, selected) ==
    [timestamp |-> current_time,
     selection_method |-> "top_20_percent_per_channel",
     total_channels |-> Len(chans),
     total_posts_found |-> total_posts_all_channels(dict),
     total_posts_selected |-> total_selected_posts(dict),
     channels_analysis |-> dict,
     final_selected_posts |-> selected]

-----------------------------------------------------------------------------
(* What the platform can answer. *)

ChannelNames == {"a", "b"}

RECURSIVE SeqsUpTo(_, _)
\* the sequences over S of length at most n
SeqsUpTo(S, n) ==
    IF n = 0 THEN {<<>>}
    ELSE LET shorter == SeqsUpTo(S, n - 1)
         IN  shorter \cup {Append(s, x) : s \in {t \in shorter : Len(t) = n - 1}, x \in S}

\* config.py:38-39: any list of names, repeated names included
ChannelLists == SeqsUpTo(ChannelNames, MaxChannels)

\* a message as the client returns it, without its id
RawMessage(date, views, forwards, message, media) ==
    [date |-> date, views |-> views, forwards |-> forwards,
     message |-> message, media |-> media]

Recent == cutoff_time         \* the oldest instant inside the window
Old == cutoff_time - 1

TextPost == <<"<", "b", ">">>

\* views and forwards of a message: scores 2, 2 and 4
CounterKinds == {<<NoCount, 1>>, <<2, 0>>, <<2, 1>>}

\* messages of a whole run: inside the window, a text post or a media post
\* without text; and one message outside
MsgKinds ==
    {RawMessage(Recent, k[1], k[2], c[1], c[2]) :
        k \in CounterKinds, c \in {<<TextPost, FALSE>>, <<(<<>>), TRUE>>}}
      \cup {RawMessage(Old, 2, 1, TextPost, FALSE)}

\* messages of the per-source specification: three scores 2, 2, 4 inside the
\* window, one message outside
WideKinds ==
    {RawMessage(Recent, k[1], k[2], TextPost, FALSE) : k \in CounterKinds}
      \cup {RawMessage(Old, 2, 1, TextPost, FALSE)}

\* message ids fall along the list: the newest message has the highest id
WithIds(s) ==
    [i \in 1..Len(s) |->
        [date |-> s[i].date, views |-> s[i].views, forwards |-> s[i].forwards,
         message |-> s[i].message, media |-> s[i].media, id |-> Len(s) - i + 1]]

\* a long list of recent messages, views 0, 1, 2, 0, ... down the list
UniformList(n) ==
    [i \in 1..n |-> RawMessage(Recent, i % 3, 0, TextPost, FALSE)]

\* client.get_messages(entity, limit=limit_per_channel)
Limited(s) == SubSeq(s, 1, Min(Len(s), LIMIT_PER_CHANNEL))

FetchLists == {WithIds(Limited(s)) : s \in SeqsUpTo(MsgKinds, MaxLen)}

WideLists ==
    {WithIds(Limited(s)) : s \in SeqsUpTo(WideKinds, MaxFetched)}
      \cup {WithIds(Limited(UniformList(n))) : n \in (MaxFetched + 1)..MaxLimit}

\* what one iteration of the fetch loop meets: get_entity raises,
\* get_messages raises, or the messages arrive
FetchOutcomes(lists) ==
    {[raised |-> TRUE, error |-> e, messages |-> <<>>] :
        e \in {"get_entity failed", "get_messages failed"}}
      \cup {[raised |-> FALSE, error |-> NoExc, messages |-> m] : m \in lists}

RunOutcomes == FetchOutcomes(FetchLists)
WideOutcomes == FetchOutcomes(WideLists)

-----------------------------------------------------------------------------
(* main(): start and fetch *)

\* the locals of a run before its first step
InitRun ==
    /\ ci = 1
    /\ exc = NoExc
    /\ messages = <<>>
    /\ channel_posts = <<>>
    /\ all_posts_by_channel = <<>>
    /\ content_file = NoFile
    /\ save_error = NoExc
    /\ pi = 1
    /\ successful_sends = 0
    /\ failed_sends = 0
    /\ reported = FALSE
    /\ requests = <<>>
    /\ outbox = <<>>
    /\ handled = <<>>

NoArgs == <<>>
NoResult == [kind |-> "none"]

\* no function of utils.py is called on its own
NoCall ==
    /\ args = NoArgs
    /\ result = NoResult

\* main.py run on its own, outside scheduler.py
NoScheduler ==
    /\ sched_pc = "off"
    /\ now = 0
    /\ next_run = 0
    /\ run_log = <<>>

Init ==
    /\ channels \in ChannelLists
    /\ InitRun
    /\ NoScheduler
    /\ NoCall
    /\ pc = "start"
    /\ posts = <<>>
    /\ connected = FALSE

\* main.py:104-106, 152-163: TelegramClient(...) and client.start(); when
\* they raise, main logs and re-raises, and the client is not connected
Start ==
    /\ pc = "start"
    /\ \E started \in BOOLEAN :
          /\ connected' = started
          /\ pc' = IF started THEN "fetch_loop" ELSE "raised"
    /\ UNCHANGED <<channels, ci, exc, messages, channel_posts,
                   all_posts_by_channel, posts, content_file, save_error, pi,
                   successful_sends, failed_sends, reported, requests, outbox,
                   handled,
                   sched_pc, now, next_run, run_log, args, result>>

\* main.py:192-264: one iteration of the loop over channels
ProcessChannelWith(outcomes) ==
    /\ pc = "fetch_loop"
    /\ ci <= Len(channels)
    /\ \E o \in outcomes :
          LET channel == channels[ci]
              sorted == SortByScore(WindowFilter(channel, o.messages))
          IN  /\ exc' = o.error
              /\ messages' = IF o.raised THEN messages ELSE o.messages
              /\ channel_posts' = IF o.raised THEN channel_posts ELSE sorted
              /\ all_posts_by_channel' =
                    DictSet(all_posts_by_channel, channel,
                            IF o.raised THEN ErrorAnalysis(o.error)
                            ELSE Analysis(sorted))
              /\ ci' = NextChannel(ci, Len(channels), o.raised)
    /\ UNCHANGED <<channels, pc, posts, content_file, save_error, pi,
                   successful_sends, failed_sends, reported, requests, outbox,
                   handled, connected,
                   sched_pc, now, next_run, run_log, args, result>>

ProcessChannel == ProcessChannelWith(RunOutcomes)

\* main.py:266-288: after the loop, combine and sort the selections
CombineSelected ==
    /\ pc = "fetch_loop"
    /\ ci > Len(channels)
    /\ posts' = MergeSelected(all_posts_by_channel)
    /\ pc' = "save"
    /\ UNCHANGED <<channels, ci, exc, messages, channel_posts,
                   all_posts_by_channel, content_file, save_error, pi,
                   successful_sends, failed_sends, reported, requests, outbox,
                   handled, connected,
                   sched_pc, now, next_run, run_log, args, result>>

-----------------------------------------------------------------------------
(* main(): snapshot and publishing *)

NoSnapshotError == {NoExc}
SnapshotErrors == {"mkdir failed", "dump failed"}

PartialFile == [written |-> FALSE, partial |-> TRUE]

\* main.py:291-312: the file after the write attempt
FileAfterSave(file, err, data) ==
    CASE err = NoExc -> [written |-> TRUE, data |-> data]
      [] err = "dump failed" -> PartialFile
      [] OTHER -> file

\* the snapshot written outside any try: its exception reaches main()
SaveRaises(err) == IF err = NoExc THEN "returned" ELSE "raised"

\* main.py:311-314: the exception is logged and the function returns
AfterSave(err) == "returned"

\* the selection returned from inside the try only
ReturnedOnSuccess(err, selected) == IF err = NoExc THEN selected ELSE <<>>

\* main.py:314: return all_selected_posts, whatever the write did
Returned(err, selected) == selected

\* main.py:156-163: the finally clause; disconnect() may raise, which is
\* caught
Disconnect ==
    \E closed \in BOOLEAN : connected' = (connected /\ ~closed)

\* main.py:290-314, 112-120: the snapshot, the return to main()
SaveSnapshot ==
    /\ pc = "save"
    /\ \E err \in NoSnapshotError \cup SnapshotErrors :
          /\ save_error' = err
          /\ content_file' =
                FileAfterSave(content_file, err,
                    analysis_data(channels, all_posts_by_channel, posts))
          /\ posts' = Returned(err, posts)
          /\ IF AfterSave(err) = "returned"
             THEN IF posts' = <<>>
                  THEN pc' = "done" /\ Disconnect
                  ELSE pc' = "send_loop" /\ UNCHANGED connected
             ELSE pc' = "raised" /\ Disconnect
    /\ messages' = <<>>
    /\ channel_posts' = <<>>
    /\ exc' = NoExc
    /\ UNCHANGED <<channels, ci, all_posts_by_channel, pi,
                   successful_sends, failed_sends, reported, requests, outbox,
                   handled,
                   sched_pc, now, next_run, run_log, args, result>>

Has(post, key) == key \in DOMAIN post

\* the f-strings of main.py:37, 51, 55, 80, 84 read post['channel'] and
\* post['id']
CanLog(post) == Has(post, "channel") /\ Has(post, "id")

\* client.get_messages(post['channel'], ids=post['id']) and what it answered
Request(post, answer) ==
    [channel |-> post.channel, id |-> post.id, answer |-> answer]

SendFile(post, delivered) ==
    [method |-> "send_file", entity |-> FORWARD_GROUP_ID,
     file |-> <<post.channel, post.id>>, text |-> format_post_caption(post),
     parse_mode |-> "html", delivered |-> delivered]

SendMessage(post, delivered) ==
    [method |-> "send_message", entity |-> FORWARD_GROUP_ID,
     file |-> <<>>, text |-> format_post_caption(post),
     parse_mode |-> "html", delivered |-> delivered]

Outcome(req, out, ret) == [requests |-> req, outbox |-> out, ret |-> ret]

\* send_file tried a second time when it raises
send_with_retry(post, env) ==
    IF ~CanLog(post) THEN Outcome(<<>>, <<>>, "raise")
    ELSE IF env.refetch # "message"
         THEN Outcome(<<Request(post, env.refetch)>>, <<>>, "False")
         ELSE IF env.send = "raise"
              THEN Outcome(<<Request(post, env.refetch)>>,
                           <<SendFile(post, FALSE), SendFile(post, FALSE)>>, "False")
              ELSE Outcome(<<Request(post, env.refetch)>>,
                           <<SendFile(post, TRUE)>>, "True")

\* main.py:21-56.  env.refetch: get_messages raises, returns None, or
\* returns the message; env.send: send_file raises or not
send_post_with_media(post, env) ==
    IF ~CanLog(post) THEN Outcome(<<>>, <<>>, "raise")
    ELSE IF env.refetch # "message"
         THEN Outcome(<<Request(post, env.refetch)>>, <<>>, "False")
         ELSE IF env.send = "raise"
              THEN Outcome(<<Request(post, env.refetch)>>,
                           <<SendFile(post, FALSE)>>, "False")
              ELSE Outcome(<<Request(post, env.refetch)>>,
                           <<SendFile(post, TRUE)>>, "True")

\* main.py:58-85
send_text_post(post, env) ==
    IF env.send = "raise"
    THEN Outcome(<<>>, <<SendMessage(post, FALSE)>>,
                 IF CanLog(post) THEN "False" ELSE "raise")
    ELSE Outcome(<<>>, <<SendMessage(post, TRUE)>>,
                 IF CanLog(post) THEN "True" ELSE "raise")

\* main.py:145-147: the handler reads post['channel']; a KeyError there
\* leaves the loop and reaches main.py:152
Handler(post, o) ==
    Outcome(o.requests, o.outbox, IF Has(post, "channel") THEN "False" ELSE "crash")

\* an invalid post passed over without being counted
SkipInvalid(post, env) ==
    IF ~validate_post_data(post) THEN Outcome(<<>>, <<>>, "skipped")
    ELSE LET o == IF post.has_media THEN send_post_with_media(post, env)
                  ELSE send_text_post(post, env)
         IN  IF o.ret = "raise" THEN Handler(post, o) ELSE o

\* main.py:122-147: one iteration of the loop over posts
Iteration(post, env) ==
    IF ~validate_post_data(post) THEN Outcome(<<>>, <<>>, "False")
    ELSE IF ~Has(post, "has_media") THEN Handler(post, Outcome(<<>>, <<>>, "raise"))
    ELSE LET o == IF post.has_media THEN send_post_with_media(post, env)
                  ELSE send_text_post(post, env)
         IN  IF o.ret = "raise" THEN Handler(post, o) ELSE o

SendEnvs == [refetch : {"raise", "None", "message"}, send : {"raise", "ok"}]

\* the loop left at the first failed post
StopAtFailure(i, n, ret) == IF ret = "False" THEN n + 1 ELSE i + 1

\* main.py:122: the loop goes on to the next post whatever the result
NextPost(i, n, ret) == i + 1

ProcessPost ==
    /\ pc = "send_loop"
    /\ pi <= Len(posts)
    /\ \E env \in SendEnvs :
          LET o == Iteration(posts[pi], env)
          IN  /\ requests' = requests \o o.requests
              /\ outbox' = outbox \o o.outbox
              /\ handled' = Append(handled, posts[pi])
              /\ successful_sends' = successful_sends + (IF o.ret = "True" THEN 1 ELSE 0)
              /\ failed_sends' = failed_sends + (IF o.ret = "False" THEN 1 ELSE 0)
              /\ IF o.ret = "crash"
                 THEN pc' = "raised" /\ pi' = pi /\ Disconnect
                 ELSE pc' = pc /\ pi' = NextPost(pi, Len(posts), o.ret)
                        /\ UNCHANGED connected
    /\ UNCHANGED <<channels, ci, exc, messages, channel_posts,
                   all_posts_by_channel, posts, content_file, save_error,
                   reported,
                   sched_pc, now, next_run, run_log, args, result>>

\* main.py:149-163: the final statistics, then the finally clause
FinishRun ==
    /\ pc = "send_loop"
    /\ pi > Len(posts)
    /\ reported' = TRUE
    /\ pc' = "done"
    /\ Disconnect
    /\ UNCHANGED <<channels, ci, exc, messages, channel_posts,
                   all_posts_by_channel, posts, content_file, save_error, pi,
                   successful_sends, failed_sends, requests, outbox, handled,
                   sched_pc, now, next_run, run_log, args, result>>

Next ==
    \/ Start
    \/ ProcessChannel
    \/ CombineSelected
    \/ SaveSnapshot
    \/ ProcessPost
    \/ FinishRun

Spec == Init /\ [][Next]_vars

-----------------------------------------------------------------------------
(* One source, over longer message lists: the loop body of                 *)
(* fetch_top_posts_with_client on a single configured channel, with the    *)
(* client already started.                                                 *)

InitSelect ==
    /\ channels \in {<<c>> : c \in ChannelNames}
    /\ InitRun
    /\ NoScheduler
    /\ NoCall
    /\ pc = "fetch_loop"
    /\ posts = <<>>
    /\ connected = TRUE

ProcessChannelWide == ProcessChannelWith(WideOutcomes)

NextSelect ==
    \/ ProcessChannelWide
    \/ CombineSelected

SpecSelect == InitSelect /\ [][NextSelect]_vars

-----------------------------------------------------------------------------
(* The publishing loop of main() over any list of post dicts, complete or  *)
(* lacking one key.                                                        *)

Without(post, key) == [k \in (DOMAIN post) \ {key} |-> post[k]]

CompletePosts ==
    {post_data(c, m) : c \in {"a"},
        m \in {[id |-> 1, date |-> Recent, views |-> 2, forwards |-> 1,
                message |-> TextPost, media |-> FALSE],
               [id |-> 2, date |-> Recent, views |-> 2, forwards |-> 0,
                message |-> <<>>, media |-> TRUE]}}

PostDicts ==
    CompletePosts \cup {Without(p, k) : p \in CompletePosts, k \in required_fields}

InitLoop ==
    /\ channels = <<"a">>
    /\ InitRun
    /\ NoScheduler
    /\ NoCall
    /\ pc = "send_loop"
    /\ posts \in SeqsUpTo(PostDicts, MaxPosts) \ {<<>>}
    /\ connected = TRUE

NextLoop ==
    \/ ProcessPost
    \/ FinishRun

SpecLoop == InitLoop /\ [][NextLoop]_vars

-----------------------------------------------------------------------------
(* Properties of one source (SpecSelect) *)

\* the latest iteration of the fetch loop fetched its channel
Fetched == ci > 1 /\ exc = NoExc

\* the analysis recorded for the channel of the latest iteration
LatestAnalysis == DictGet(all_posts_by_channel, channels[ci - 1])

Ceil5(n) == (n + 4) \div 5

\* C1: the number of posts selected for a source with n retained items is
\* ceil(n / 5), which is at least 1 when n > 0 and 0 when n = 0.
C1_SelectedCount ==
    Fetched =>
        LET n == Len(channel_posts)
            d == LatestAnalysis
        IN  /\ n <= LIMIT_PER_CHANNEL
            /\ d.total_posts = n
            /\ d.selected_posts = Ceil5(n)
            /\ Len(d.posts) = d.selected_posts
            /\ (n > 0 => d.selected_posts >= 1)
            /\ (n = 0 => d.selected_posts = 0)

\* a source with 15 retained items, where 15 * 0.2 has to come out as 3
C1_Witness ==
    /\ Fetched
    /\ Len(channel_posts) = 15
    /\ LatestAnalysis.selected_posts = 3

\* the length of the longest prefix of msgs inside the window
PrefixInWindow(msgs) ==
    CHOOSE k \in 0..Len(msgs) :
        /\ \A i \in 1..k : msgs[i].date >= cutoff_time
        /\ k = Len(msgs) \/ msgs[k + 1].date < cutoff_time

\* C2: the retained items are exactly the longest prefix of the fetched list
\* whose timestamps are all >= cutoff; whatever follows the first older item
\* is excluded, recent or not.
C2_WindowPrefix ==
    Fetched =>
        LET k == PrefixInWindow(messages)
        IN  /\ Len(channel_posts) = k
            /\ {channel_posts[i].id : i \in 1..k} = {messages[i].id : i \in 1..k}
            /\ LatestAnalysis.total_posts = k

\* an older message with a recent one behind it, which is not retained
C2_Witness ==
    /\ Fetched
    /\ \E i, j \in 1..Len(messages) :
          /\ i < j
          /\ messages[i].date < cutoff_time
          /\ messages[j].date >= cutoff_time
    /\ Len(channel_posts) >= 1

\* the place of a post in the fetched list
FetchIndex(post) == CHOOSE k \in 1..Len(messages) : messages[k].id = post.id

\* C3: the posts selected for a source are in non-increasing score order,
\* and selected posts of equal score are in the order they were fetched in.
C3_SelectionOrder ==
    Fetched =>
        LET sel == LatestAnalysis.posts
        IN  \A i, j \in 1..Len(sel) :
                i < j =>
                    /\ sel[i].interaction_score >= sel[j].interaction_score
                    /\ sel[i].interaction_score = sel[j].interaction_score
                          => FetchIndex(sel[i]) < FetchIndex(sel[j])

\* two posts of equal score selected, and a third of that score left out
C3_Witness ==
    /\ Fetched
    /\ Len(LatestAnalysis.posts) = 2
    /\ LatestAnalysis.posts[1].interaction_score
          = LatestAnalysis.posts[2].interaction_score
    /\ Len(channel_posts) > 2
    /\ channel_posts[3].interaction_score
          = LatestAnalysis.posts[1].interaction_score

-----------------------------------------------------------------------------
(* Properties of a whole run (Spec) *)

Range(s) == {s[i] : i \in 1..Len(s)}

\* fetch_top_posts_with_client has left its loop
LoopLeft == pc \in {"save", "send_loop", "done"}

\* the per-source selections in dict order
Selections ==
    Concat([i \in 1..Len(all_posts_by_channel) |-> all_posts_by_channel[i][2].posts])

SelectionIndex(post) ==
    CHOOSE k \in 1..Len(Selections) :
        Selections[k].channel = post.channel /\ Selections[k].id = post.id

\* C4: the returned list is in non-increasing score order across all
\* sources, it holds as many posts as the per-source selected counts add
\* up to, and posts of equal score keep their order in the concatenation of
\* the per-source selections.
C4_MergeOrder ==
    LoopLeft =>
        /\ Len(posts) = SumSeq([i \in 1..Len(all_posts_by_channel) |->
                                    all_posts_by_channel[i][2].selected_posts])
        /\ Range(posts) = Range(Selections)
        /\ \A i, j \in 1..Len(posts) :
              i < j =>
                  /\ posts[i].interaction_score >= posts[j].interaction_score
                  /\ posts[i].interaction_score = posts[j].interaction_score
                        => SelectionIndex(posts[i]) < SelectionIndex(posts[j])

\* two sources, configured b before a, each with one selected post, of equal
\* score
C4_Witness ==
    /\ pc = "save"
    /\ channels = <<"b", "a">>
    /\ Len(posts) = 2
    /\ posts[1].interaction_score = posts[2].interaction_score
    /\ posts[1].channel = "b"

HasError(data) == "error" \in DOMAIN data

\* C5: when the fetch of one source raises, that source is recorded with
\* total 0, selected 0, no posts and the error, every other configured
\* source is still fetched and selected, and its selected posts are
\* returned and go through the publishing loop.
C5_FetchIsolation ==
    /\ (pc = "fetch_loop" /\ ci > 1 /\ exc # NoExc) =>
          /\ ci <= Len(channels) + 1
          /\ channels[ci - 1] \in DictKeys(all_posts_by_channel)
          /\ DictGet(all_posts_by_channel, channels[ci - 1])
                = [total_posts |-> 0, selected_posts |-> 0, posts |-> <<>>,
                   error |-> exc]
    /\ \A i \in 1..Len(all_posts_by_channel) :
          LET data == all_posts_by_channel[i][2]
          IN  HasError(data) =>
                 data.total_posts = 0 /\ data.selected_posts = 0 /\ data.posts = <<>>
    /\ LoopLeft =>
          /\ ci = Len(channels) + 1
          /\ DictKeys(all_posts_by_channel) = Range(channels)
          /\ \A i \in 1..Len(all_posts_by_channel) :
                Range(all_posts_by_channel[i][2].posts) \subseteq Range(posts)
    /\ (pc = "done" /\ posts # <<>>) => Range(posts) \subseteq Range(handled)

\* the first source failed, the second was fetched, selected and published
C5_Witness ==
    /\ pc = "done"
    /\ Len(all_posts_by_channel) = 2
    /\ HasError(all_posts_by_channel[1][2])
    /\ all_posts_by_channel[2][2].selected_posts = 1
    /\ successful_sends = 1

\* C6: the publishing loop takes the posts in the order of the merged list,
\* and a failed send never keeps a later post from its send attempt: every
\* selected post has gone through the loop when the run completes.
C6_PublishAll ==
    /\ pc = "send_loop" =>
          /\ pi <= Len(posts) + 1
          /\ handled = SubSeq(posts, 1, pi - 1)
    /\ (pc = "done" /\ posts # <<>>) => handled = posts /\ reported
    /\ \A i \in 1..Len(handled) :
          IF handled[i].has_media
          THEN \E k \in 1..Len(requests) :
                  /\ requests[k].channel = handled[i].channel
                  /\ requests[k].id = handled[i].id
          ELSE \E k \in 1..Len(outbox) :
                  /\ outbox[k].method = "send_message"
                  /\ outbox[k].text = format_post_caption(handled[i])

\* the first of two posts failed, the second was sent
C6_Witness ==
    /\ pc = "done"
    /\ Len(posts) = 2
    /\ failed_sends = 1
    /\ successful_sends = 1
    /\ outbox[Len(outbox)].delivered
    /\ Len(outbox) = 1 \/ ~outbox[1].delivered

IsMedia(post) == post.has_media
IsText(post) == ~post.has_media
IsSendFile(m) == m.method = "send_file"
IsSendMessage(m) == m.method = "send_message"
GotMessage(r) == r.answer = "message"

\* C7 as stated: for each selected post there is exactly one outbound send.
C7_OneSendPerPost ==
    (pc = "done" /\ reported) => Len(outbox) = Len(posts)

\* C7, amended: a text post gets exactly one send_message with its formatted
\* caption; a post with an attachment is first re-fetched by (channel, id)
\* and gets one send_file with the media and the caption exactly when the
\* re-fetch returns the message, and no send otherwise; every send goes to
\* the destination in HTML parse mode.
C7_SendsMatchPosts ==
    LET media == SelectSeq(handled, IsMedia)
        text == SelectSeq(handled, IsText)
        files == SelectSeq(outbox, IsSendFile)
        texts == SelectSeq(outbox, IsSendMessage)
        got == SelectSeq(requests, GotMessage)
    IN  /\ Len(requests) = Len(media)
        /\ \A i \in 1..Len(requests) :
              requests[i].channel = media[i].channel /\ requests[i].id = media[i].id
        /\ Len(texts) = Len(text)
        /\ \A i \in 1..Len(texts) : texts[i].text = format_post_caption(text[i])
        /\ Len(files) = Len(got)
        /\ \A i \in 1..Len(files) :
              /\ files[i].file = <<got[i].channel, got[i].id>>
              /\ \E p \in Range(media) :
                    /\ p.channel = got[i].channel
                    /\ p.id = got[i].id
                    /\ files[i].text = format_post_caption(p)
        /\ \A i \in 1..Len(outbox) :
              outbox[i].parse_mode = "html" /\ outbox[i].entity = FORWARD_GROUP_ID

\* a media post re-fetched and sent, then a text post sent
C7_Witness ==
    /\ pc = "done"
    /\ Len(outbox) = 2
    /\ outbox[1].method = "send_file"
    /\ outbox[2].method = "send_message"
    /\ Len(requests) = 1

\* C8 as stated: whatever fails, the client session included, main() does
\* not raise, and the counts are reported, also when no post was selected.
C8_NeverRaises ==
    pc \in {"done", "raised"} => pc = "done" /\ reported

\* C8, amended: main() raises only when the client session cannot be
\* started, before anything was fetched; no failure of a fetch, of the
\* snapshot or of a send makes it raise or keeps the run from completing;
\* the counts are reported exactly when at least one post was selected.
C8_RaisesOnlyAtStart ==
    /\ pc = "raised" =>
          /\ ~connected
          /\ ci = 1
          /\ all_posts_by_channel = <<>>
          /\ save_error = NoExc
          /\ content_file = NoFile
          /\ handled = <<>>
    /\ pc = "done" => (reported <=> posts # <<>>)
    /\ pc \notin {"done", "raised"} => ENABLED Next

\* a run that met a failed fetch, a failed snapshot and a failed send, and
\* completed with its report
C8_Witness ==
    /\ pc = "done"
    /\ reported
    /\ \E i \in 1..Len(all_posts_by_channel) : HasError(all_posts_by_channel[i][2])
    /\ save_error # NoExc
    /\ failed_sends > 0

\* C10: a failure of the snapshot write is caught: the function still
\* returns the whole merged selection, and every selected post goes through
\* the publishing loop.
C10_SnapshotFailure ==
    save_error # NoExc =>
        /\ pc \in {"send_loop", "done"}
        /\ ~content_file.written
        /\ Len(posts) = Len(Selections)
        /\ Range(posts) = Range(Selections)
        /\ pc = "done" => handled = posts

\* the snapshot failed and both selected posts were sent
C10_Witness ==
    /\ pc = "done"
    /\ save_error # NoExc
    /\ Len(posts) = 2
    /\ successful_sends = 2

-----------------------------------------------------------------------------
(* Properties of the publishing loop over any dicts (SpecLoop) *)

LacksField(post) ==
    \E key \in {"channel", "id", "text", "views", "forwards", "has_media"} :
        key \notin DOMAIN post

\* C9: a post that lacks a required field causes no re-fetch and no send,
\* adds one to the failed counter, raises nothing, and the loop goes on to
\* the next post.
C9_InvalidSkipped ==
    [][(pc = "send_loop" /\ pi <= Len(posts) /\ LacksField(posts[pi])) =>
          /\ requests' = requests
          /\ outbox' = outbox
          /\ failed_sends' = failed_sends + 1
          /\ successful_sends' = successful_sends
          /\ pc' = "send_loop"
          /\ pi' = pi + 1]_vars

\* an incomplete post was skipped and the complete post after it was sent
C9_Witness ==
    /\ pc = "done"
    /\ Len(handled) = 2
    /\ LacksField(handled[1])
    /\ ~LacksField(handled[2])
    /\ failed_sends = 1
    /\ successful_sends = 1
    /\ Len(outbox) = 1

-----------------------------------------------------------------------------
(* The phases of a run (Spec) *)

\* the phase main() is in: FETCHING is the loop over channels with a channel
\* left to process (main.py:192-264), SELECTING the merge after that loop
\* (main.py:266-288), SNAPSHOTTING the write of content/posts.json
\* (main.py:290-312), PUBLISHING the loop over posts (main.py:122-147)
Phase ==
    CASE pc = "start" -> "INIT"
      [] pc = "fetch_loop" /\ ci <= Len(channels) -> "FETCHING"
      [] pc = "fetch_loop" /\ ci > Len(channels) -> "SELECTING"
      [] pc = "save" -> "SNAPSHOTTING"
      [] pc = "send_loop" -> "PUBLISHING"
      [] pc = "done" -> "DONE"
      [] OTHER -> "RAISED"

PhaseRank(phase) ==
    CASE phase = "INIT" -> 0
      [] phase = "FETCHING" -> 1
      [] phase = "SELECTING" -> 2
      [] phase = "SNAPSHOTTING" -> 3
      [] phase = "PUBLISHING" -> 4
      [] OTHER -> 5

\* nothing was written or sent so far
NothingOut ==
    /\ content_file = NoFile
    /\ save_error = NoExc
    /\ requests = <<>>
    /\ outbox = <<>>
    /\ handled = <<>>

\* C11: a run goes through INIT, FETCHING, SELECTING, SNAPSHOTTING,
\* PUBLISHING, DONE in that order and never back to an earlier phase; each
\* iteration of the loop over channels takes the next channel, once; the
\* snapshot is attempted in one step, after every channel was processed and
\* before anything is re-fetched or sent; no iteration of the loop over
\* channels runs once publishing has started.
C11_PhaseOrder ==
    /\ [](PhaseRank(Phase) <= 3 => NothingOut)
    /\ [](PhaseRank(Phase) >= 2 /\ pc # "raised" => ci = Len(channels) + 1)
    /\ [][/\ PhaseRank(Phase') >= PhaseRank(Phase)
          /\ Phase \notin {"FETCHING", "PUBLISHING"} => Phase' # Phase
          /\ Phase = "FETCHING" => ci' = ci + 1
          /\ Phase = "SELECTING" => Phase' = "SNAPSHOTTING"
          /\ Phase = "SNAPSHOTTING" => Phase' \in {"PUBLISHING", "DONE"}
          /\ Phase = "PUBLISHING" =>
                \/ Phase' = "DONE"
                \/ Phase' = "PUBLISHING" /\ pi' = pi + 1
          /\ Phase # "FETCHING" => UNCHANGED <<ci, all_posts_by_channel>>
          /\ Phase # "SNAPSHOTTING" => UNCHANGED <<content_file, save_error>>
          /\ Phase # "PUBLISHING" => UNCHANGED <<requests, outbox, handled>>]_vars

\* a run over two channels that wrote its snapshot, published a post and
\* completed
C11_Witness ==
    /\ pc = "done"
    /\ Len(channels) = 2
    /\ ci = 3
    /\ content_file.written
    /\ reported
    /\ Len(outbox) >= 1

-----------------------------------------------------------------------------
(* The snapshot (Spec) *)

\* the keys of one entry of channels_analysis
EntryKeys == {"total_posts", "selected_posts", "posts"}

\* C12 as stated: the snapshot written by a run has an entry (total,
\* selected count, selected posts, optional error) for every configured
\* source, failed and empty ones included; its total_channels is the number
\* of entries; its total_posts_selected is the sum of the entries' selected
\* counts and the length of the final selected list.
C12_SnapshotTotals ==
    content_file.written =>
        LET data == content_file.data
            dict == data.channels_analysis
        IN  /\ DictKeys(dict) = Range(channels)
            /\ \A i \in 1..Len(dict) :
                  /\ DOMAIN dict[i][2] \in {EntryKeys, EntryKeys \cup {"error"}}
                  /\ Len(dict[i][2].posts) = dict[i][2].selected_posts
            /\ data.total_channels = Len(dict)
            /\ data.total_posts_selected =
                  SumSeq([i \in 1..Len(dict) |-> dict[i][2].selected_posts])
            /\ data.total_posts_selected = Len(data.final_selected_posts)

\* a snapshot written for CHANNELS = a,a: total_channels is 2 and
\* channels_analysis has the one entry of a
C12_Witness ==
    /\ content_file.written
    /\ channels = <<"a", "a">>
    /\ content_file.data.total_channels = 2
    /\ Len(content_file.data.channels_analysis) = 1

\* what the snapshot does satisfy: total_channels is the length of CHANNELS,
\* and every other part of C12
SnapshotOfRun ==
    content_file.written =>
        LET data == content_file.data
            dict == data.channels_analysis
        IN  /\ DictKeys(dict) = Range(channels)
            /\ \A i \in 1..Len(dict) :
                  /\ DOMAIN dict[i][2] \in {EntryKeys, EntryKeys \cup {"error"}}
                  /\ Len(dict[i][2].posts) = dict[i][2].selected_posts
            /\ data.total_channels = Len(channels)
            /\ Len(dict) = Cardinality(Range(channels))
            /\ data.total_posts_selected =
                  SumSeq([i \in 1..Len(dict) |-> dict[i][2].selected_posts])
            /\ data.total_posts_selected = Len(data.final_selected_posts)
            /\ data.final_selected_posts = posts

-----------------------------------------------------------------------------
(* scheduler.py: the runs of main() under the scheduler.  The clock counts *)
(* hours; the job of schedule.every(4).hours is due when now >= next_run,  *)
(* and is rescheduled from the end of its run.                             *)

\* scheduler.py:50: schedule.every(4).hours
Interval == 4

\* what a fetch meets in a scheduled run: it raises, finds nothing, or finds
\* one text message
SchedOutcomes ==
    FetchOutcomes({WithIds(<<>>),
                   WithIds(<<RawMessage(Recent, 2, 1, TextPost, FALSE)>>)})

ProcessChannelSched == ProcessChannelWith(SchedOutcomes)

InitScheduler ==
    /\ channels = <<"a">>
    /\ InitRun
    /\ pc = "idle"
    /\ posts = <<>>
    /\ connected = FALSE
    /\ sched_pc = "setup"
    /\ now = 0
    /\ next_run = 0
    /\ run_log = <<>>
    /\ NoCall

\* run_content_curation() is called: main() starts with fresh locals
CallMain ==
    /\ pc' = "start"
    /\ UNCHANGED <<channels, ci, exc, messages, channel_posts,
                   all_posts_by_channel, posts, content_file, save_error, pi,
                   successful_sends, failed_sends, reported, requests, outbox,
                   handled, connected>>

\* main() is over: its locals and its client are gone, the file stays
LeaveMain ==
    /\ pc' = "idle"
    /\ ci' = 1
    /\ exc' = NoExc
    /\ messages' = <<>>
    /\ channel_posts' = <<>>
    /\ all_posts_by_channel' = <<>>
    /\ save_error' = NoExc
    /\ pi' = 1
    /\ successful_sends' = 0
    /\ failed_sends' = 0
    /\ reported' = FALSE
    /\ requests' = <<>>
    /\ outbox' = <<>>
    /\ handled' = <<>>
    /\ posts' = <<>>
    /\ connected' = FALSE
    /\ UNCHANGED <<channels, content_file>>

\* scheduler.py:46-54: the job is scheduled, then the initial run is called
Setup ==
    /\ sched_pc = "setup"
    /\ next_run' = now + Interval
    /\ sched_pc' = "initial"
    /\ CallMain
    /\ UNCHANGED <<now, run_log, args, result>>

\* scheduler.py:29-35: what scheduled_curation logs for a run of main()
RunResult(position) == IF position = "raised" THEN "failed" ELSE "completed"

\* the exception of main() passed on to the caller of scheduled_curation
Propagate(logged) == IF logged = "failed" THEN "crashed" ELSE "loop"

\* scheduler.py:34-35, 57-61: the exception is caught and logged, and
\* scheduled_curation returns to the loop
AfterRun(logged) == "loop"

\* scheduler.py:25-40: main() returned or raised; scheduled_curation logs
\* and returns, and a job that ran is rescheduled from now
EndRun ==
    /\ sched_pc \in {"initial", "job"}
    /\ pc \in {"done", "raised"}
    /\ run_log' = Append(run_log, RunResult(pc))
    /\ sched_pc' = AfterRun(RunResult(pc))
    /\ \E elapsed \in {0, 1} :
          /\ now + elapsed <= MaxTime
          /\ now' = now + elapsed
    /\ next_run' = IF sched_pc = "job" THEN now' + Interval ELSE next_run
    /\ LeaveMain
    /\ UNCHANGED <<args, result>>

\* scheduler.py:57-61: run_pending() with nothing due, and the sleeps until
\* the next hour
Poll ==
    /\ sched_pc = "loop"
    /\ now < next_run
    /\ now < MaxTime
    /\ now' = now + 1
    /\ UNCHANGED <<sched_pc, next_run, run_log, args, result>>
    /\ UNCHANGED <<channels, pc, ci, exc, messages, channel_posts,
                   all_posts_by_channel, posts, content_file, save_error, pi,
                   successful_sends, failed_sends, reported, requests, outbox,
                   handled, connected>>

\* scheduler.py:59: run_pending() finds the job due and calls it
RunPending ==
    /\ sched_pc = "loop"
    /\ now >= next_run
    /\ sched_pc' = "job"
    /\ CallMain
    /\ UNCHANGED <<now, next_run, run_log, args, result>>

\* scheduler.py:61-63: KeyboardInterrupt
StopByUser ==
    /\ sched_pc \in {"initial", "job", "loop"}
    /\ sched_pc' = "stopped"
    /\ UNCHANGED <<now, next_run, run_log, args, result>>
    /\ UNCHANGED <<channels, pc, ci, exc, messages, channel_posts,
                   all_posts_by_channel, posts, content_file, save_error, pi,
                   successful_sends, failed_sends, reported, requests, outbox,
                   handled, connected>>

\* a step of the run that is in progress
RunStep ==
    /\ sched_pc \in {"initial", "job"}
    /\ \/ Start
       \/ ProcessChannelSched
       \/ CombineSelected
       \/ SaveSnapshot
       \/ ProcessPost
       \/ FinishRun

NextScheduler ==
    \/ Setup
    \/ RunStep
    \/ EndRun
    \/ Poll
    \/ RunPending
    \/ StopByUser

\* the loop of scheduler.main() keeps turning and the clock keeps going
SpecScheduler ==
    /\ InitScheduler
    /\ [][NextScheduler]_vars
    /\ WF_vars(Poll)
    /\ WF_vars(RunPending)

-----------------------------------------------------------------------------
(* Properties of the scheduler (SpecScheduler) *)

\* the scheduler is in its loop and the latest run failed
FailedRunBehind(k) ==
    /\ sched_pc = "loop"
    /\ Len(run_log) = k
    /\ run_log[k] = "failed"

\* C13: a run of main() that raises is logged as failed and the scheduler
\* goes on: it never stops but by the user, the initial run included; after a
\* failed run it is in its loop with the job still scheduled; a job that is
\* due is called whatever the run before it did; and the run that is due
\* after a failed run is called, unless the user stops the scheduler.
C13_SchedulerSurvives ==
    /\ [](sched_pc # "crashed")
    /\ [][(sched_pc \in {"initial", "job"} /\ pc = "raised"
             /\ sched_pc' # "stopped") =>
              /\ run_log' = Append(run_log, "failed")
              /\ sched_pc' = "loop"
              /\ next_run' <= now' + Interval]_vars
    /\ [][(sched_pc = "loop" /\ now >= next_run /\ sched_pc' # "stopped") =>
              sched_pc' = "job" /\ pc' = "start"]_vars
    /\ \A k \in 1..MaxTime :
          (FailedRunBehind(k) /\ next_run <= MaxTime)
              ~> (sched_pc = "stopped" \/ (sched_pc = "job" /\ Len(run_log) = k))

\* the initial run failed, and so did the run due four hours later; the run
\* due after that was called and completed
C13_Witness ==
    /\ sched_pc = "loop"
    /\ run_log = <<"failed", "failed", "completed">>

-----------------------------------------------------------------------------
(* utils.py called on its own: one call of a function on arguments drawn   *)
(* from a bounded set.                                                     *)

\* nothing else of the program runs
InitCall ==
    /\ channels = <<>>
    /\ InitRun
    /\ NoScheduler
    /\ pc = "call"
    /\ posts = <<>>
    /\ connected = FALSE
    /\ result = NoResult

UnchangedByCall ==
    UNCHANGED <<channels, pc, ci, exc, messages, channel_posts,
                all_posts_by_channel, posts, content_file, save_error, pi,
                successful_sends, failed_sends, reported, requests, outbox,
                handled, connected, sched_pc, now, next_run, run_log, args>>

Counts == 0..MaxCount

\* the counters of a message (a number, or None) and a number of reactions
InitScore ==
    /\ InitCall
    /\ args \in [views : Counts \cup {NoCount}, forwards : Counts \cup {NoCount},
                 reactions : Counts]

HasCounters == args.views # NoCount /\ args.forwards # NoCount

\* calculate_interaction_score(views, forwards, reactions)
CallScore ==
    /\ result = NoResult
    /\ HasCounters
    /\ result' = [kind |-> "score",
                  value |-> calculate_interaction_score(
                                args.views, args.forwards, args.reactions)]
    /\ UnchangedByCall

\* calculate_interaction_score(views, forwards)
CallScoreDefault ==
    /\ result = NoResult
    /\ HasCounters
    /\ result' = [kind |-> "default",
                  value |-> calculate_interaction_score(
                                args.views, args.forwards, DefaultReactions)]
    /\ UnchangedByCall

\* main.py:209-225: the post built for a message with these counters
BuildPost ==
    /\ result = NoResult
    /\ result' = [kind |-> "post",
                  value |-> post_data("a",
                      [id |-> 1, date |-> Recent, views |-> args.views,
                       forwards |-> args.forwards, message |-> TextPost,
                       media |-> FALSE])]
    /\ UnchangedByCall

NextScore ==
    \/ CallScore
    \/ CallScoreDefault
    \/ BuildPost

SpecScore == InitScore /\ [][NextScore]_vars

\* C14: for non-negative v, f, r the score is v + 2f + 3r, and v + 2f when
\* r is left out; it does not decrease when one argument grows; and a post
\* built by the pipeline has interaction_score = views + 2 * forwards of its
\* own counters, which are those of the message, 0 for None.
C14_Score ==
    /\ result.kind = "score" =>
          /\ result.value = args.views + 2 * args.forwards + 3 * args.reactions
          /\ \A w \in Counts :
                /\ w >= args.views =>
                      calculate_interaction_score(w, args.forwards, args.reactions)
                          >= result.value
                /\ w >= args.forwards =>
                      calculate_interaction_score(args.views, w, args.reactions)
                          >= result.value
                /\ w >= args.reactions =>
                      calculate_interaction_score(args.views, args.forwards, w)
                          >= result.value
    /\ result.kind = "default" =>
          result.value = args.views + 2 * args.forwards
    /\ result.kind = "post" =>
          /\ result.value.views = (IF args.views = NoCount THEN 0 ELSE args.views)
          /\ result.value.forwards =
                (IF args.forwards = NoCount THEN 0 ELSE args.forwards)
          /\ result.value.interaction_score =
                result.value.views + 2 * result.value.forwards

\* the score of 1 view, 2 forwards and 3 reactions is 14
C14_Witness ==
    /\ result.kind = "score"
    /\ args = [views |-> 1, forwards |-> 2, reactions |-> 3]
    /\ result.value = 14

-----------------------------------------------------------------------------
(* format_post_caption called on its own *)

\* markup characters, quotes, whitespace and a letter
Chars == {"<", ">", "&", "\"", "'", " ", "\n", "h"}

\* "<b>hi</b>"
ExampleText == <<"<", "b", ">", "h", "i", "<", "/", "b", ">">>

Texts == SeqsUpTo(Chars, MaxText) \cup {ExampleText}

\* post dicts: any text, or no text key at all, with other fields that vary
CaptionPosts ==
    [text : Texts, channel : ChannelNames, has_media : BOOLEAN]
      \cup [channel : ChannelNames, has_media : BOOLEAN]

InitCaption ==
    /\ InitCall
    /\ args \in CaptionPosts

\* format_post_caption(post)
CallCaption ==
    /\ result = NoResult
    /\ result' = [kind |-> "caption", value |-> format_post_caption(args)]
    /\ UnchangedByCall

NextCaption == CallCaption

SpecCaption == InitCaption /\ [][NextCaption]_vars

\* the entities of the characters that are escaped
Entities ==
    {[name |-> <<"&", "a", "m", "p", ";">>, char |-> "&"],
     [name |-> <<"&", "l", "t", ";">>, char |-> "<"],
     [name |-> <<"&", "g", "t", ";">>, char |-> ">"],
     [name |-> <<"&", "q", "u", "o", "t", ";">>, char |-> "\""],
     [name |-> <<"&", "#", "x", "2", "7", ";">>, char |-> "'"]}

StartsWith(s, prefix) ==
    Len(s) >= Len(prefix) /\ SubSeq(s, 1, Len(prefix)) = prefix

RECURSIVE Unescape(_)
\* s with every entity read back as its character
Unescape(s) ==
    IF s = <<>> THEN <<>>
    ELSE IF \E e \in Entities : StartsWith(s, e.name)
         THEN LET e == CHOOSE e \in Entities : StartsWith(s, e.name)
              IN  <<e.char>> \o Unescape(SubSeq(s, Len(e.name) + 1, Len(s)))
         ELSE <<Head(s)>> \o Unescape(Tail(s))

\* no <, > or quote is left in s, and every & of s begins an entity
FullyEscaped(s) ==
    \A i \in 1..Len(s) :
        /\ s[i] \notin {"<", ">", "\"", "'"}
        /\ s[i] = "&" =>
              \E e \in Entities : StartsWith(SubSeq(s, i, Len(s)), e.name)

\* "&lt;b&gt;hi&lt;/b&gt;"
ExampleEscaped ==
    <<"&", "l", "t", ";", "b", "&", "g", "t", ";", "h", "i",
      "&", "l", "t", ";", "/", "b", "&", "g", "t", ";">>

\* C15: the caption is the text of the post with every <, >, & and quote
\* character replaced by its entity and nothing else changed, or
\* "[Media post without text]" when the text is missing, empty or all
\* whitespace; then a blank line and the blockquote footer; posts with the
\* same text get the same caption.
C15_Caption ==
    result.kind = "caption" =>
        LET text == IF "text" \in DOMAIN args THEN args.text ELSE <<>>
            caption == result.value
            cut == Len(caption) - Len(Footer)
            head == SubSeq(caption, 1, cut)
        IN  /\ cut >= 0
            /\ SubSeq(caption, cut + 1, Len(caption)) = Footer
            /\ Footer[1] = "\n" /\ Footer[2] = "\n" /\ Footer[3] = "<"
            /\ IF \A i \in 1..Len(text) : text[i] \in {" ", "\n", "\t"}
               THEN head = Placeholder
               ELSE /\ FullyEscaped(head)
                    /\ Unescape(head) = text
            /\ text = ExampleText => head = ExampleEscaped
            /\ caption = format_post_caption([text |-> text])

\* the caption of a text with a quote and an ampersand in it
C15_Witness ==
    /\ result.kind = "caption"
    /\ "text" \in DOMAIN args
    /\ args.text = <<"'", "&", "h">>
    /\ Len(result.value) = 12 + Len(Footer)

-----------------------------------------------------------------------------
(* The counters of the publishing loop (SpecLoop) *)

\* C16: every iteration of the publishing loop adds one to exactly one of
\* successful_sends and failed_sends, whether the post is invalid, its
\* re-fetch fails, its send fails or it is sent; the loop is never left by
\* an exception; and when it finishes the two counters add up to the number
\* of selected posts.
C16_CountedOnce ==
    /\ [](pc # "raised")
    /\ [](pc = "send_loop" =>
            successful_sends + failed_sends = Len(handled) /\ Len(handled) = pi - 1)
    /\ [](pc = "done" =>
            reported /\ successful_sends + failed_sends = Len(posts))
    /\ [][(pc = "send_loop" /\ pi <= Len(posts)) =>
              /\ pi' = pi + 1
              /\ \/ successful_sends' = successful_sends + 1
                       /\ failed_sends' = failed_sends
                 \/ successful_sends' = successful_sends
                       /\ failed_sends' = failed_sends + 1]_vars

\* an invalid post and a media post whose re-fetch returned nothing: two
\* failures, no send
C16_Witness ==
    /\ pc = "done"
    /\ Len(posts) = 2
    /\ LacksField(posts[1])
    /\ Len(requests) = 1
    /\ requests[1].answer = "None"
    /\ failed_sends = 2
    /\ successful_sends = 0
    /\ outbox = <<>>


=============================================================================
